---- MODULE Spec2Model ----
(***************************************************************************)
(* Voice-guided git automation (src/main.py): the speech-to-command        *)
(* pipeline.  hybrid_listen arbitrates the recognition backends,           *)
(* parse_git_command maps a transcript to a plan of git commands,          *)
(* execute_git_sequence runs the plan fail-fast, push_current_branch       *)
(* pushes to origin/<branch>, and main drives mode selection, the          *)
(* listening loop, optional voice authentication and logging.              *)
(*                                                                         *)
(* Transcripts, commands and log lines are strings, handled as the Python  *)
(* code handles them (substring tests, regular-expression searches,        *)
(* lower(), strip(), join()).                                              *)
(***************************************************************************)
EXTENDS Integers, Sequences, FiniteSets, TLC

(***************************************************************************)
(* String primitives of the Python code.                                   *)
(***************************************************************************)
Min(S) == CHOOSE x \in S : \A y \in S : x <= y

\* s[i] as a one-character string (i is 1-based).
Char(s, i) == SubSeq(s, i, i)

\* s.startswith(p, i-1)
StartsAt(s, i, p) == /\ i >= 1
                     /\ i + Len(p) - 1 <= Len(s)
                     /\ SubSeq(s, i, i + Len(p) - 1) = p

\* Python's `sub in s`
Contains(s, sub) == \E i \in 1..(Len(s) + 1) : StartsAt(s, i, sub)

UpperCase == "ABCDEFGHIJKLMNOPQRSTUVWXYZ"
LowerCase == "abcdefghijklmnopqrstuvwxyz"
Digits == "0123456789"

\* The characters of a string, as a set.
Chars(alphabet) == {Char(alphabet, i) : i \in 1..Len(alphabet)}

UpperChars == Chars(UpperCase)

\* Each upper-case letter's lower-case letter.
LowerOf == [c \in UpperChars |->
              Char(LowerCase, CHOOSE i \in 1..Len(UpperCase) : Char(UpperCase, i) = c)]

LowerChar(c) == IF c \in UpperChars THEN LowerOf[c] ELSE c

RECURSIVE Lower(_)
\* str.lower()
Lower(s) == IF s = "" THEN "" ELSE LowerChar(Char(s, 1)) \o Lower(Tail(s))

IsSpace(c) == c \in {" ", "\t", "\n"}

RECURSIVE LStrip(_)
LStrip(s) == IF s # "" /\ IsSpace(Char(s, 1)) THEN LStrip(Tail(s)) ELSE s

RECURSIVE RStrip(_)
RStrip(s) == IF s # "" /\ IsSpace(Char(s, Len(s)))
             THEN RStrip(SubSeq(s, 1, Len(s) - 1))
             ELSE s

\* str.strip()
Strip(s) == RStrip(LStrip(s))

RECURSIVE Join(_, _)
\* sep.join(parts)
Join(parts, sep) ==
    IF parts = <<>> THEN ""
    ELSE IF Len(parts) = 1 THEN parts[1]
    ELSE parts[1] \o sep \o Join(Tail(parts), sep)

(***************************************************************************)
(* The regular expressions of parse_git_command, as re.search runs them:   *)
(* the leftmost start position wins; at one start position an optional     *)
(* group is tried present first and absent second, a lazy (.+?) takes the  *)
(* fewest characters and a greedy [...]+ the most.                         *)
(***************************************************************************)
NoMatch == [found |-> FALSE, group |-> ""]

IsQuote(c) == c \in {"\"", "'"}

\* [\w\-_] : a letter, a digit, an underscore or a hyphen
NameChars == Chars(LowerCase) \cup Chars(UpperCase) \cup Chars(Digits)
             \cup {"_", "-"}

IsNameChar(c) == c \in NameChars

\* ["'](.+?)["'] anchored at position p: the opening quote is s[p].
QuotedAt(s, p) ==
    IF p <= Len(s) /\ IsQuote(Char(s, p))
    THEN LET ks == {k \in 1..(Len(s) - p) :
                      /\ p + k + 1 <= Len(s)
                      /\ IsQuote(Char(s, p + k + 1))
                      /\ \A j \in (p + 1)..(p + k) : Char(s, j) # "\n"}
         IN IF ks = {} THEN NoMatch
            ELSE [found |-> TRUE, group |-> SubSeq(s, p + 1, p + Min(ks))]
    ELSE NoMatch

\* commit (?:message )?["'](.+?)["'] anchored at position i
CommitMessageAt(s, i) ==
    IF StartsAt(s, i, "commit ")
    THEN LET p == i + Len("commit ")
             withWord == IF StartsAt(s, p, "message ")
                         THEN QuotedAt(s, p + Len("message "))
                         ELSE NoMatch
         IN IF withWord.found THEN withWord ELSE QuotedAt(s, p)
    ELSE NoMatch

\* ([\w\-_]+) anchored at position p: the longest run of name characters.
NameAt(s, p) ==
    IF p <= Len(s) /\ IsNameChar(Char(s, p))
    THEN LET ends == {e \in p..Len(s) :
                        /\ \A j \in p..e : IsNameChar(Char(s, j))
                        /\ (e = Len(s) \/ ~IsNameChar(Char(s, e + 1)))}
         IN [found |-> TRUE, group |-> SubSeq(s, p, Min(ends))]
    ELSE NoMatch

\* create branch ([\w\-_]+) anchored at position i
CreateBranchAt(s, i) ==
    IF StartsAt(s, i, "create branch ")
    THEN NameAt(s, i + Len("create branch "))
    ELSE NoMatch

\* (?:switch to|checkout) (?:branch )?([\w\-_]+) anchored at position i
SwitchAt(s, i) ==
    LET after(verb) ==
            LET p == i + Len(verb) + 1
                withWord == IF StartsAt(s, p, "branch ")
                            THEN NameAt(s, p + Len("branch "))
                            ELSE NoMatch
            IN IF withWord.found THEN withWord ELSE NameAt(s, p)
    IN IF StartsAt(s, i, "switch to ") /\ after("switch to").found
       THEN after("switch to")
       ELSE IF StartsAt(s, i, "checkout ")
            THEN after("checkout")
            ELSE NoMatch

\* re.search: the match at the leftmost position that has one; at[i] is the
\* pattern's match anchored at position i.
Search(at) ==
    LET starts == {i \in DOMAIN at : at[i].found}
    IN IF starts = {} THEN NoMatch ELSE at[Min(starts)]

(***************************************************************************)
(* parse_git_command: the ordered rules, first match wins.                 *)
(***************************************************************************)
UnknownCommand == "Unknown command"

parse_git_command(raw) ==
    LET text == Lower(raw)
        m == Search([i \in 1..Len(text) |-> CommitMessageAt(text, i)])
    IN IF Contains(text, "commit") /\ m.found
       THEN <<"git add -A", "git commit -m \"" \o m.group \o "\"">>
       ELSE IF Contains(text, "commit")
       THEN <<"git add -A", "git commit -m \"voice commit\"">>
       ELSE IF Contains(text, "push") THEN <<"git push">>
       ELSE IF Contains(text, "pull") THEN <<"git pull">>
       ELSE IF Contains(text, "status") THEN <<"git status">>
       ELSE IF Contains(text, "create branch")
       THEN LET b == Search([i \in 1..Len(text) |-> CreateBranchAt(text, i)])
            IN IF b.found
               THEN <<"git branch " \o b.group, "git checkout " \o b.group>>
               ELSE <<UnknownCommand>>
       ELSE LET b == Search([i \in 1..Len(text) |-> SwitchAt(text, i)])
            IN IF (Contains(text, "switch to") \/ Contains(text, "checkout"))
                  /\ b.found
               THEN <<"git checkout " \o b.group>>
               ELSE IF \/ Contains(text, "undo last commit")
                       \/ Contains(text, "revert last commit")
                       \/ Contains(text, "undo")
                    THEN <<"git reset --soft HEAD~1">>
                    ELSE <<UnknownCommand>>

(***************************************************************************)
(* The environment: what the recognisers hear, what git returns, whether   *)
(* the log files can be written.                                           *)
(***************************************************************************)
\* Raw results of a recogniser ("" is silence, an unrecognised utterance or a
\* failed request).
Heard ==
    { "", "hello there", " Exit ", "stop", "exit now",
      "switch to offline", "Switch to online", "online", "offline",
      "commit message \"fix bug\"", "commit 'initial work'",
      "commit message 'push fix'", "commit",
      "push", "pull", "status", "undo", "undo last commit",
      "create branch feature-x", "create branch",
      "switch to main", "switch to online-docs", "checkout feature-branch" }

\* What a recogniser returns for what it hears: the text, stripped
\* (offline_asr_vosk line 133, cloud_asr_google line 155,
\* whisper_transcribe_from_file line 170), computed once.
Recognised == [h \in Heard \cup {""} |-> Strip(h)]

\* hybrid_listen's `(text or "").lower().strip()` of every recogniser result,
\* computed once.
Normalised == [t \in {Recognised[h] : h \in Heard \cup {""}} |-> Strip(Lower(t))]

\* What hybrid_listen can return.
Transcripts == {Normalised[Recognised[h]] : h \in Heard}

\* parse_git_command(t) of every transcript t, computed once.
Plans == [t \in Transcripts |-> parse_git_command(t)]

\* Exit statuses of a git command.
ReturnCodes == {0, 1}

\* stdout + stderr of a git command that ended with status rc.
Output(rc) == IF rc = 0 THEN "" ELSE "fatal: error\n"

\* `git rev-parse --abbrev-ref HEAD`: exit status and stdout.
HeadResults == { [rc |-> 0, out |-> "main\n"],
                 [rc |-> 0, out |-> "dev\n"],
                 [rc |-> 128, out |-> ""] }

\* Euclidean distances between the reference and the fresh MFCC vectors.
Distances == {40, 55, 70}

\* The two log files: logs/commands.txt and command_log.txt.
Detailed == "logs/commands.txt"
Flat == "command_log.txt"
LogFiles == {Detailed, Flat}

\* datetime.now().isoformat(sep=' ', timespec='seconds')
Timestamp == "2026-01-01 00:00:00"

(***************************************************************************)
(* Bounds of the model.                                                    *)
(***************************************************************************)
\* Longest plan handed directly to execute_git_sequence.
MaxPlanLen == 3

(***************************************************************************)
(* Configuration (src/main.py CONFIG).                                     *)
(***************************************************************************)
\* threshold of authenticate_via_voice
AuthThreshold == 55

\* attempts of the initial mode selection
MaxAttempts == 4

ExitPhrases == {"exit", "quit", "stop"}

SensitiveKeywords == {"commit", "push", "reset", "branch"}

VARIABLES
    pc,             \* where main is: "select", "listen", "heard", "exited"
    mode,           \* main's mode: "offline" or "online"
    attempts,       \* main's attempts counter of the mode selection
    appended,       \* the lines appended to each log file since the current
                    \* iteration began (the files are opened in append mode:
                    \* earlier lines are never read or rewritten)
    cyc,            \* what the current iteration has done so far
    tick,           \* parity of the empty transcripts in a row (the loop's
                    \* `continue` of line 324), FALSE after any other one
    auth,           \* ENABLE_VOICE_AUTH
    vosk_model,     \* whether the Vosk model was loaded at startup
    whisper_model,  \* whether the Whisper model was loaded at startup
    writable        \* the log files that can be opened for appending

vars == <<pc, mode, attempts, appended, cyc, tick, auth, vosk_model,
          whisper_model, writable>>

(***************************************************************************)
(* append_log: the detailed file first, the flat file second; an open or   *)
(* write that fails raises out of append_log.                              *)
(***************************************************************************)
append_log(L, line, w) ==
    IF Detailed \notin w
    THEN [logs |-> L, raised |-> TRUE]
    ELSE LET L1 == [L EXCEPT ![Detailed] = Append(@, Timestamp \o " - " \o line \o "\n")]
         IN IF Flat \notin w
            THEN [logs |-> L1, raised |-> TRUE]
            ELSE [logs |-> [L1 EXCEPT ![Flat] = Append(@, line \o "\n")],
                  raised |-> FALSE]

(***************************************************************************)
(* The recognition backends and hybrid_listen.                             *)
(***************************************************************************)
Call(fn, out) == [fn |-> fn, out |-> out]

\* offline_asr_vosk: "" when the model is not loaded, else the stripped text.
offline_asr_vosk(model, heard) == IF model THEN Recognised[heard] ELSE ""

\* cloud_asr_google: the stripped text, "" on any failure.
cloud_asr_google(heard) == Recognised[heard]

\* whisper_transcribe_from_file: "" when the model is not loaded.
whisper_transcribe_from_file(model, heard) ==
    IF model THEN Recognised[heard] ELSE ""

\* Faulty variant of hybrid_listen: the online mode also falls back to the
\* batch recogniser.
hybrid_listen_online_fallback(m, ears) ==
    LET fallback == <<Call("record_wav", "fallback.wav"),
                      Call("whisper_transcribe_from_file",
                           whisper_transcribe_from_file(whisper_model, ears.w))>>
        first == IF m = "offline"
                 THEN Call("offline_asr_vosk", offline_asr_vosk(vosk_model, ears.v))
                 ELSE Call("cloud_asr_google", cloud_asr_google(ears.g))
        calls == IF first.out = "" THEN <<first>> \o fallback ELSE <<first>>
    IN [text |-> Normalised[calls[Len(calls)].out], calls |-> calls]

\* hybrid_listen(mode): the transcript and the backend calls made, in order.
\* ears.v, ears.w, ears.g: what the streaming, batch and cloud recognisers
\* would hear.
hybrid_listen(m, ears) ==
    LET fallback == <<Call("record_wav", "fallback.wav"),
                      Call("whisper_transcribe_from_file",
                           whisper_transcribe_from_file(whisper_model, ears.w))>>
        calls ==
            IF m = "offline"
            THEN LET first == Call("offline_asr_vosk",
                                   offline_asr_vosk(vosk_model, ears.v))
                 IN IF first.out = "" THEN <<first>> \o fallback ELSE <<first>>
            ELSE IF m = "online"
                 THEN <<Call("cloud_asr_google", cloud_asr_google(ears.g))>>
                 ELSE fallback
    IN [text |-> Normalised[calls[Len(calls)].out], calls |-> calls]

(***************************************************************************)
(* authenticate_via_voice: fails without a reference sample; otherwise     *)
(* records a sample and compares the distance with the threshold.          *)
(***************************************************************************)
authenticate_via_voice(refExists, dist) ==
    IF ~refExists THEN FALSE ELSE dist < AuthThreshold

\* Inputs of one authentication: whether auth/voice_ref.wav exists and the
\* measured distance (no sample is recorded without a reference).
AuthInputs == {[ref |-> FALSE, dist |-> 0]}
              \cup {[ref |-> TRUE, dist |-> d] : d \in Distances}

(***************************************************************************)
(* Git helpers.                                                            *)
(***************************************************************************)
\* current_branch: the stripped stdout, "main" when rev-parse fails.
current_branch(head) == IF head.rc = 0 THEN Strip(head.out) ELSE "main"

Step(i, rc) == [i |-> i, rc |-> rc]

RECURSIVE RunFrom_no_stop(_, _, _, _, _)
\* Faulty variant of RunFrom: the loop logs a failing step and goes on.
RunFrom_no_stop(cmds, i, rcs, L, w) ==
    IF i > Len(cmds)
    THEN [ret |-> "True", ran |-> <<>>, logs |-> L, raised |-> FALSE]
    ELSE LET a == IF rcs[i] # 0
                  THEN append_log(L, "FAILED: " \o cmds[i] \o " -> "
                                     \o Output(rcs[i]), w)
                  ELSE [logs |-> L, raised |-> FALSE]
             rest == RunFrom_no_stop(cmds, i + 1, rcs, a.logs, w)
         IN [rest EXCEPT !.ran = <<Step(i, rcs[i])>> \o @,
                         !.ret = IF rcs[i] # 0 THEN "False" ELSE @]

RECURSIVE RunFrom_raising(_, _, _, _, _)
\* Faulty variant of RunFrom: a failing step raises instead of returning False.
RunFrom_raising(cmds, i, rcs, L, w) ==
    IF i > Len(cmds)
    THEN [ret |-> "True", ran |-> <<>>, logs |-> L, raised |-> FALSE]
    ELSE IF rcs[i] # 0
    THEN [ret |-> "raised", ran |-> <<Step(i, rcs[i])>>, logs |-> L,
          raised |-> TRUE]
    ELSE LET rest == RunFrom_raising(cmds, i + 1, rcs, L, w)
         IN [rest EXCEPT !.ran = <<Step(i, rcs[i])>> \o @]

RECURSIVE RunFrom(_, _, _, _, _)
\* The for loop of execute_git_sequence from step i on: rcs[i] is the exit
\* status of step i if it is run.
RunFrom(cmds, i, rcs, L, w) ==
    IF i > Len(cmds)
    THEN [ret |-> "True", ran |-> <<>>, logs |-> L, raised |-> FALSE]
    ELSE IF rcs[i] # 0
    THEN LET a == append_log(L, "FAILED: " \o cmds[i] \o " -> "
                                \o Output(rcs[i]), w)
         IN [ret |-> IF a.raised THEN "raised" ELSE "False",
             ran |-> <<Step(i, rcs[i])>>, logs |-> a.logs, raised |-> a.raised]
    ELSE LET rest == RunFrom(cmds, i + 1, rcs, L, w)
         IN [rest EXCEPT !.ran = <<Step(i, rcs[i])>> \o @]

\* Faulty variant of execute_git_sequence: no is_git_repo() check.
execute_git_sequence_unchecked(cmds, isRepo, rcs, L, w) ==
    RunFrom(cmds, 1, rcs, L, w)

\* execute_git_sequence: ret is "None" outside a repository, "False" at the
\* first failing step, "True" when every step succeeded.
execute_git_sequence(cmds, isRepo, rcs, L, w) ==
    IF ~isRepo
    THEN [ret |-> "None", ran |-> <<>>, logs |-> L, raised |-> FALSE]
    ELSE RunFrom(cmds, 1, rcs, L, w)

\* Faulty variant of push_current_branch: a failed push is announced but not
\* logged.
push_current_branch_unlogged_failure(head, rc, L, w) ==
    LET br == current_branch(head)
        a == IF rc = 0
             THEN append_log(L, "push -> origin/" \o br, w)
             ELSE [logs |-> L, raised |-> FALSE]
    IN [ret |-> IF a.raised THEN "raised" ELSE IF rc = 0 THEN "True" ELSE "False",
        branch |-> br, logs |-> a.logs, raised |-> a.raised]

\* push_current_branch: git push origin <current branch>, logged either way.
push_current_branch(head, rc, L, w) ==
    LET br == current_branch(head)
        a == IF rc = 0
             THEN append_log(L, "push -> origin/" \o br, w)
             ELSE append_log(L, "PUSH FAILED -> origin/" \o br \o " : "
                                \o Output(rc), w)
    IN [ret |-> IF a.raised THEN "raised" ELSE IF rc = 0 THEN "True" ELSE "False",
        branch |-> br, logs |-> a.logs, raised |-> a.raised]

(***************************************************************************)
(* One iteration of main's listening loop, after a non-empty transcript.   *)
(***************************************************************************)
\* The record of an iteration: the mode hybrid_listen was called with, the
\* backend calls, the transcript, and what the rest of the iteration did:
\* whether the parser ran and its plan, the authentications run and their
\* result, whether the directory was a repository when the plan was executed,
\* what execute_git_sequence returned and the steps it ran, what
\* push_current_branch returned and the branch it pushed, and the exception
\* that ended the loop.
NewCycle(m, l) ==
    [arg |-> m, calls |-> l.calls, heard |-> l.text,
     parsed |-> FALSE, cmds |-> <<>>,
     authRuns |-> 0, authOk |-> FALSE,
     inRepo |-> "n/a", exec |-> "none", ran |-> <<>>,
     push |-> "none", branch |-> "",
     raised |-> "none"]

NoCycle == NewCycle("", [calls |-> <<>>, text |-> ""])

\* How an iteration ends: "continue", "break", or "raise" (an exception
\* reaches the try of main).
Outcome(c, m, L, next) ==
    [cyc |-> IF next = "raise" THEN [c EXCEPT !.raised = "Exception"] ELSE c,
     mode |-> m, logs |-> L, next |-> next]

\* What git and the speaker do during one iteration that plans cmds.  Inputs
\* that nothing reads are left at one value: no step runs outside a
\* repository, `git push origin` follows only steps that all succeeded, and
\* nobody authenticates when ENABLE_VOICE_AUTH is off.
AllZero(n) == [i \in 1..n |-> 0]

PushInputs == {[head |-> h, pushRc |-> p] : h \in HeadResults, p \in ReturnCodes}

NoPush == [head |-> [rc |-> 0, out |-> "main\n"], pushRc |-> 0]

GitEnvs(n) ==
    {[isRepo |-> FALSE, rcs |-> AllZero(n), push |-> NoPush]}
    \cup {[isRepo |-> TRUE, rcs |-> rcs, push |-> NoPush] :
            rcs \in [1..n -> ReturnCodes] \ {AllZero(n)}}
    \cup {[isRepo |-> TRUE, rcs |-> AllZero(n), push |-> p] : p \in PushInputs}

Envs(n) ==
    { [isRepo |-> g.isRepo, rcs |-> g.rcs, ref |-> a.ref, dist |-> a.dist,
       head |-> g.push.head, pushRc |-> g.push.pushRc] :
        g \in GitEnvs(n),
        a \in IF auth THEN AuthInputs ELSE {[ref |-> FALSE, dist |-> 0]} }

\* Faulty variant of execute_and_log: EXECUTED is logged only for a plan
\* whose steps all succeeded.
execute_and_log_on_success(c, m, L, w, env) ==
    LET cmds == c.cmds
        ex == execute_git_sequence(cmds, env.isRepo, env.rcs, L, w)
        c3 == [c EXCEPT !.inRepo = IF env.isRepo THEN "yes" ELSE "no",
                        !.exec = ex.ret, !.ran = ex.ran]
    IN IF ex.raised THEN Outcome(c3, m, ex.logs, "raise")
       ELSE LET wantsPush == /\ ex.ret = "True"
                             /\ \E i \in 1..Len(cmds) : Contains(cmds[i], "push")
                ps == push_current_branch(env.head, env.pushRc, ex.logs, w)
                c4 == IF wantsPush
                      THEN [c3 EXCEPT !.push = ps.ret, !.branch = ps.branch]
                      ELSE c3
                L4 == IF wantsPush THEN ps.logs ELSE ex.logs
            IN IF wantsPush /\ ps.raised THEN Outcome(c4, m, L4, "raise")
               ELSE IF ex.ret # "True" THEN Outcome(c4, m, L4, "continue")
               ELSE LET a == append_log(L4, "EXECUTED: " \o Join(cmds, " | "), w)
                    IN Outcome(c4, m, a.logs,
                               IF a.raised THEN "raise" ELSE "continue")

\* main, lines 356-365: execute the plan, push when it succeeded and holds a
\* push, log EXECUTED.
execute_and_log(c, m, L, w, env) ==
    LET cmds == c.cmds
        ex == execute_git_sequence(cmds, env.isRepo, env.rcs, L, w)
        c3 == [c EXCEPT !.inRepo = IF env.isRepo THEN "yes" ELSE "no",
                        !.exec = ex.ret, !.ran = ex.ran]
    IN IF ex.raised THEN Outcome(c3, m, ex.logs, "raise")
       ELSE LET wantsPush == /\ ex.ret = "True"
                             /\ \E i \in 1..Len(cmds) : Contains(cmds[i], "push")
                ps == push_current_branch(env.head, env.pushRc, ex.logs, w)
                c4 == IF wantsPush
                      THEN [c3 EXCEPT !.push = ps.ret, !.branch = ps.branch]
                      ELSE c3
                L4 == IF wantsPush THEN ps.logs ELSE ex.logs
            IN IF wantsPush /\ ps.raised THEN Outcome(c4, m, L4, "raise")
               ELSE LET a == append_log(L4, "EXECUTED: " \o Join(cmds, " | "), w)
                    IN Outcome(c4, m, a.logs,
                               IF a.raised THEN "raise" ELSE "continue")

\* Faulty variant of needs_auth: only commit and push are gated.
needs_auth_commit_push(cmds) ==
    auth /\ \E k \in {"commit", "push"} : Contains(Join(cmds, " "), k)

\* main, lines 346-354: whether the plan is gated behind voice authentication.
needs_auth(cmds) ==
    auth /\ \E k \in SensitiveKeywords : Contains(Join(cmds, " "), k)

\* Faulty variant of is_exit: an exit phrase anywhere in the transcript.
is_exit_anywhere(text) == \E x \in ExitPhrases : Contains(text, x)

\* main, line 337: the exit phrases, matched exactly.
is_exit(text) == Strip(text) \in ExitPhrases

\* Faulty variant of is_unknown: compares in the wrong letter case.
is_unknown_lower(cmds) == cmds[1] = Lower(UnknownCommand)

\* main, line 342: the parser's answer for a transcript no rule matches.
is_unknown(cmds) == cmds[1] = UnknownCommand

\* Faulty variant of mode_switch: the offline test is missing.
mode_switch_online_only(text) ==
    IF Contains(text, "switch to online") THEN "online" ELSE ""

\* main, lines 329-336: the mode a transcript switches to, "" for none; the
\* offline phrase is tested first.
mode_switch(text) ==
    IF Contains(text, "switch to offline") THEN "offline"
    ELSE IF Contains(text, "switch to online") THEN "online"
    ELSE ""

\* main, lines 325-365: the body of the loop for the transcript c.heard.
main_iteration(c, m, L, w, env) ==
    LET text == c.heard
        a1 == append_log(L, text, w)
    IN IF a1.raised THEN Outcome(c, m, a1.logs, "raise")
       ELSE IF mode_switch(text) # ""
       THEN Outcome(c, mode_switch(text), a1.logs, "continue")
       ELSE IF is_exit(text)
       THEN Outcome(c, m, a1.logs, "break")
       ELSE
       LET cmds == Plans[text]    \* parse_git_command(text)
           c1 == [c EXCEPT !.parsed = TRUE, !.cmds = cmds]
       IN IF is_unknown(cmds)
          THEN Outcome(c1, m, a1.logs, "continue")
          ELSE
          LET gated == needs_auth(cmds)
              ok == authenticate_via_voice(env.ref, env.dist)
              c2 == IF gated THEN [c1 EXCEPT !.authRuns = 1, !.authOk = ok]
                    ELSE c1
          IN IF gated /\ ~ok
             THEN LET a2 == append_log(a1.logs, "AUTH FAIL for command: "
                                                \o Join(cmds, " | "), w)
                  IN Outcome(c2, m, a2.logs,
                             IF a2.raised THEN "raise" ELSE "continue")
             ELSE execute_and_log(c2, m, a1.logs, w, env)

(***************************************************************************)
(* main as a state machine.                                                *)
(***************************************************************************)
EmptyLogs == [f \in LogFiles |-> <<>>]

Init ==
    /\ pc = "select"
    /\ mode = "offline"
    /\ attempts = 0
    /\ appended = EmptyLogs
    /\ cyc = NoCycle
    /\ tick = FALSE
    /\ auth \in BOOLEAN
    /\ vosk_model \in BOOLEAN
    /\ whisper_model \in BOOLEAN
    /\ writable = LogFiles

\* What the recognisers may hear at one hybrid_listen(m): only the backends
\* of mode m listen, the streaming recogniser hears nothing without its model,
\* and the fallback recording is made (and holds speech) only after the
\* streaming recogniser returned nothing.
Ears(m, inputs) ==
    IF m = "offline"
    THEN UNION { {[v |-> a, w |-> b, g |-> ""] :
                    b \in IF offline_asr_vosk(vosk_model, a) = ""
                          THEN inputs ELSE {""}} :
                 a \in IF vosk_model THEN inputs ELSE {""} }
    ELSE {[v |-> "", w |-> "", g |-> a] : a \in inputs}

\* Faulty variant of select_mode: an empty transcript is not counted.
select_mode_ignoring_silence(text, n, m) ==
    IF text = "" THEN [attempts |-> n, mode |-> m, chose |-> FALSE]
    ELSE IF Contains(text, "offline")
    THEN [attempts |-> n, mode |-> "offline", chose |-> TRUE]
    ELSE IF Contains(text, "online")
    THEN [attempts |-> n, mode |-> "online", chose |-> TRUE]
    ELSE [attempts |-> n + 1, mode |-> m, chose |-> FALSE]

\* main, lines 305-317: the body of the selection loop for one transcript,
\* with n failed attempts so far; chose is whether the loop breaks.
select_mode(text, n, m) ==
    IF text = "" THEN [attempts |-> n + 1, mode |-> m, chose |-> FALSE]
    ELSE IF Contains(text, "offline")
    THEN [attempts |-> n, mode |-> "offline", chose |-> TRUE]
    ELSE IF Contains(text, "online")
    THEN [attempts |-> n, mode |-> "online", chose |-> TRUE]
    ELSE [attempts |-> n + 1, mode |-> m, chose |-> FALSE]

\* main, lines 303-318: one attempt of the mode selection; the loop ends at
\* the first keyword or when the attempts are used up.
SelectAttempt ==
    /\ pc = "select"
    /\ attempts < MaxAttempts
    /\ \E ears \in Ears("online", Heard) :
         LET l == hybrid_listen("online", ears)
             r == select_mode(l.text, attempts, mode)
         IN /\ cyc' = NewCycle("online", l)
            /\ attempts' = r.attempts
            /\ mode' = r.mode
            /\ pc' = IF r.chose \/ ~(r.attempts < MaxAttempts)
                     THEN "listen" ELSE "select"
    /\ UNCHANGED <<appended, tick, auth, vosk_model, whisper_model, writable>>

\* Faulty variant of Listen: the empty transcript is handed to the loop body
\* like any other.
Listen_handling_silence ==
    /\ pc = "listen"
    /\ appended' = EmptyLogs
    /\ \/ \E ears \in Ears(mode, Heard) :
            LET l == hybrid_listen(mode, ears)
            IN /\ cyc' = NewCycle(mode, l)
               /\ pc' = "heard"
               /\ tick' = FALSE
       \/ /\ cyc' = [NewCycle(mode, [calls |-> <<>>, text |-> ""])
                        EXCEPT !.raised = "KeyboardInterrupt"]
          /\ pc' = "exited"
          /\ tick' = FALSE
    /\ UNCHANGED <<mode, attempts, auth, vosk_model, whisper_model, writable>>

\* main, lines 322-324: hybrid_listen(mode); an empty transcript continues the
\* loop.  A KeyboardInterrupt while waiting for speech ends the loop (line 367).
Listen ==
    /\ pc = "listen"
    /\ appended' = EmptyLogs
    /\ \/ \E ears \in Ears(mode, Heard) :
            LET l == hybrid_listen(mode, ears)
            IN /\ cyc' = NewCycle(mode, l)
               /\ pc' = IF l.text = "" THEN "listen" ELSE "heard"
               /\ tick' = IF l.text = "" THEN ~tick ELSE FALSE
       \/ /\ cyc' = [NewCycle(mode, [calls |-> <<>>, text |-> ""])
                        EXCEPT !.raised = "KeyboardInterrupt"]
          /\ pc' = "exited"
          /\ tick' = FALSE
    /\ UNCHANGED <<mode, attempts, auth, vosk_model, whisper_model, writable>>

\* main, lines 325-365 and the handlers of lines 369-375: the rest of the
\* iteration.
Handle ==
    /\ pc = "heard"
    /\ LET n == Len(Plans[cyc.heard])
       IN \E env \in Envs(n) :
            LET r == main_iteration(cyc, mode, appended, writable, env)
            IN /\ cyc' = r.cyc
               /\ mode' = r.mode
               /\ appended' = r.logs
               /\ pc' = IF r.next = "continue" THEN "listen" ELSE "exited"
    /\ UNCHANGED <<attempts, tick, auth, vosk_model, whisper_model, writable>>

\* A log file stops being writable (a full disk, a permission change).
LogFault ==
    /\ pc \in {"listen", "heard"}
    /\ \E f \in writable : writable' = writable \ {f}
    /\ UNCHANGED <<pc, mode, attempts, appended, cyc, tick, auth, vosk_model,
                   whisper_model>>

Next == SelectAttempt \/ Listen \/ Handle

Spec == Init /\ [][Next]_vars

\* The loop runs on as long as the process lives.
Fairness == WF_vars(SelectAttempt) /\ WF_vars(Listen) /\ WF_vars(Handle)

FairSpec == Spec /\ Fairness

(***************************************************************************)
(* parse_git_command and execute_git_sequence called directly, on          *)
(* utterances and plans of every shape within the bounds.                  *)
(***************************************************************************)
\* Utterances that speak a commit with a quoted message.
Prefixes == {"", "please "}
Messages == {"fix bug", "initial work", "x", "don't stop"}
Quotes == {"\"", "'"}
Suffixes == {"", " now"}

QuotedCommit(pre, word, q, msg, suf) ==
    pre \o "commit " \o (IF word THEN "message " ELSE "") \o q \o msg \o q \o suf

\* The message holds no quote of the kind that encloses it.
QuotedCommits ==
    UNION { {QuotedCommit(pre, word, q, msg, suf) :
                pre \in Prefixes, word \in BOOLEAN, suf \in Suffixes,
                msg \in {m \in Messages : ~Contains(m, q)}} :
            q \in Quotes }

\* Utterances that speak a commit of one file, with or without a message
\* (msg = "" for none).
Files == {"readme.md", "main.py"}

FileCommit(f, q, msg) ==
    "commit file " \o f
        \o (IF msg = "" THEN "" ELSE " message " \o q \o msg \o q)

FileCommits ==
    UNION { {FileCommit(f, q, msg) :
                f \in Files,
                msg \in {m \in Messages \cup {""} : ~Contains(m, q)}} :
            q \in Quotes }

\* Utterances that create a branch or switch to one; every name is a token
\* of [\w\-_]+.
BranchNames == {"feature-x", "main", "dev_2", "push-fix", "commit-hooks",
                "pull-requests", "status_page", "online-docs", "offline"}

CreateBranch(n) == "create branch " \o n
SwitchTo(n) == "switch to " \o n
Checkout(n) == "checkout " \o n

BranchUtterances ==
    {"create branch"}
        \cup {CreateBranch(n) : n \in BranchNames}
        \cup {SwitchTo(n) : n \in BranchNames}
        \cup {Checkout(n) : n \in BranchNames}

Utterances ==
    QuotedCommits \cup FileCommits \cup BranchUtterances \cup Transcripts

\* Plans of up to MaxPlanLen steps.
Commands == {"git add -A", "git status", "git push"}
DirectPlans == UNION {[1..n -> Commands] : n \in 1..MaxPlanLen}

InitCalls ==
    /\ pc = "call"
    /\ mode = "offline"
    /\ attempts = 0
    /\ appended = EmptyLogs
    /\ cyc = NoCycle
    /\ tick = FALSE
    /\ auth = FALSE
    /\ vosk_model = FALSE
    /\ whisper_model = FALSE
    /\ writable = LogFiles

CallParse ==
    /\ pc = "call"
    /\ \E u \in Utterances :
         cyc' = [NoCycle EXCEPT !.heard = u, !.parsed = TRUE,
                                !.cmds = parse_git_command(u)]
    /\ appended' = EmptyLogs
    /\ UNCHANGED <<pc, mode, attempts, tick, auth, vosk_model, whisper_model,
                   writable>>

CallExecute ==
    /\ pc = "call"
    /\ \E cmds \in DirectPlans, isRepo \in BOOLEAN :
         \E rcs \in [1..Len(cmds) -> ReturnCodes] :
            LET ex == execute_git_sequence(cmds, isRepo, rcs, EmptyLogs, writable)
            IN /\ cyc' = [NoCycle EXCEPT !.cmds = cmds,
                                         !.inRepo = IF isRepo THEN "yes" ELSE "no",
                                         !.exec = ex.ret, !.ran = ex.ran]
               /\ appended' = ex.logs
    /\ UNCHANGED <<pc, mode, attempts, tick, auth, vosk_model, whisper_model,
                   writable>>

NextCalls == CallParse \/ CallExecute

SpecCalls == InitCalls /\ [][NextCalls]_vars

\* The same program on a file system whose log files may stop being writable.
NextIO == Next \/ LogFault

SpecIO == Init /\ [][NextIO]_vars

(***************************************************************************)
(* Properties.                                                             *)
(***************************************************************************)
\* The line that append_log writes to file f for an entry.
Line(f, entry) == IF f = Detailed THEN Timestamp \o " - " \o entry \o "\n"
                  ELSE entry \o "\n"

\* The two log files hold exactly these entries of the current iteration.
Logged(entries) ==
    appended = [f \in LogFiles |-> [j \in 1..Len(entries) |-> Line(f, entries[j])]]

\* A step of the iteration's plan ended with a nonzero status.
StepFailed == \E j \in 1..Len(cyc.ran) : cyc.ran[j].rc # 0

\* C1: fail-fast execution.  Inside a repository execute_git_sequence runs
\* the steps of the plan in plan order from the first one, runs no step after
\* one that returned a nonzero status and then returns False; when no step
\* fails it runs them all and returns True.
C1_FailFast ==
    cyc.inRepo = "yes" =>
        /\ Len(cyc.ran) <= Len(cyc.cmds)
        /\ \A j \in 1..Len(cyc.ran) : cyc.ran[j].i = j
        /\ \A j \in 1..Len(cyc.ran) : cyc.ran[j].rc # 0 => j = Len(cyc.ran)
        /\ StepFailed => cyc.exec = "False"
        /\ ~StepFailed => Len(cyc.ran) = Len(cyc.cmds) /\ cyc.exec = "True"

\* A 3-step plan whose 2nd step fails: exactly steps 1 and 2 ran.
C1_Witness ==
    /\ cyc.inRepo = "yes"
    /\ Len(cyc.cmds) = 3
    /\ cyc.ran = <<Step(1, 0), Step(2, 1)>>
    /\ cyc.exec = "False"

\* C2: outside a repository no step of the plan runs, push_current_branch is
\* not called, and execute_git_sequence returns None, which is not a success.
C2_NotARepository ==
    cyc.inRepo = "no" =>
        /\ cyc.cmds # <<>>
        /\ cyc.ran = <<>>
        /\ cyc.push = "none"
        /\ cyc.exec = "None"

\* A push plan executed outside a repository.
C2_Witness ==
    /\ pc = "listen"
    /\ cyc.inRepo = "no"
    /\ cyc.cmds = <<"git push">>
    /\ cyc.ran = <<>>
    /\ cyc.push = "none"

\* C3: push_current_branch is called in an iteration if and only if every
\* step of the plan succeeded and the plan holds a push step.
C3_PushIffPushStep ==
    (cyc.push # "none") <=>
        (cyc.exec = "True" /\ \E i \in 1..Len(cyc.cmds) : cyc.cmds[i] = "git push")

\* The plans of the sensitive intents: Commit, Push, Undo, CreateBranch.
IsCommitPlan(cmds) == /\ Len(cmds) = 2
                      /\ StartsAt(cmds[1], 1, "git add ")
                      /\ StartsAt(cmds[2], 1, "git commit -m ")
IsPushPlan(cmds) == cmds = <<"git push">>
IsUndoPlan(cmds) == cmds = <<"git reset --soft HEAD~1">>
IsCreateBranchPlan(cmds) == /\ Len(cmds) = 2
                            /\ StartsAt(cmds[1], 1, "git branch ")
                            /\ StartsAt(cmds[2], 1, "git checkout ")
IsSensitivePlan(cmds) == \/ IsCommitPlan(cmds) \/ IsPushPlan(cmds)
                         \/ IsUndoPlan(cmds) \/ IsCreateBranchPlan(cmds)

\* C4: with ENABLE_VOICE_AUTH on, an iteration that plans a sensitive intent
\* authenticates exactly once; nothing of the plan is executed unless that
\* authentication succeeded; when it failed the iteration logs the transcript
\* and one AUTH FAIL entry, runs nothing and is back at the head of the loop.
C4_AuthGate ==
    (auth /\ cyc.parsed /\ IsSensitivePlan(cyc.cmds)) =>
        /\ cyc.authRuns = 1
        /\ (cyc.exec # "none" \/ cyc.ran # <<>> \/ cyc.push # "none")
              => cyc.authOk
        /\ ~cyc.authOk =>
              /\ cyc.exec = "none" /\ cyc.ran = <<>> /\ cyc.push = "none"
              /\ Logged(<<cyc.heard,
                          "AUTH FAIL for command: " \o Join(cyc.cmds, " | ")>>)
              /\ pc = "listen"

\* An undo whose authentication failed.
C4_Witness ==
    /\ auth
    /\ pc = "listen"
    /\ IsUndoPlan(cyc.cmds)
    /\ cyc.authRuns = 1
    /\ ~cyc.authOk
    /\ Len(appended[Flat]) = 2

\* C5: an iteration whose transcript the parser maps to Unknown executes
\* nothing, pushes nothing, does not authenticate, logs the transcript and
\* nothing else, and is back at the head of the loop in the same mode.
C5_Unknown ==
    (cyc.parsed /\ cyc.cmds = <<UnknownCommand>>) =>
        /\ cyc.heard # ""
        /\ cyc.exec = "none" /\ cyc.ran = <<>> /\ cyc.inRepo = "n/a"
        /\ cyc.push = "none"
        /\ cyc.authRuns = 0
        /\ Logged(<<cyc.heard>>)
        /\ pc = "listen"
        /\ mode = cyc.arg

\* "hello there" heard in online mode with authentication required.
C5_Witness ==
    /\ pc = "listen"
    /\ auth
    /\ cyc.heard = "hello there"
    /\ cyc.parsed
    /\ cyc.cmds = <<UnknownCommand>>
    /\ mode = "online"
    /\ appended[Flat] = <<"hello there\n">>

\* One attempt of the mode selection, as a step from pc = "select".
SelectStep ==
    LET t == cyc'.heard
    IN /\ attempts < 4
       /\ cyc'.arg = "online"
       /\ Len(cyc'.calls) = 1
       /\ cyc'.calls[1].fn = "cloud_asr_google"
       /\ appended' = appended
       /\ IF Contains(t, "offline")
          THEN mode' = "offline" /\ pc' = "listen" /\ attempts' = attempts
          ELSE IF Contains(t, "online")
          THEN mode' = "online" /\ pc' = "listen" /\ attempts' = attempts
          ELSE /\ attempts' = attempts + 1
               /\ mode' = mode
               /\ pc' = IF attempts' = 4 THEN "listen" ELSE "select"
               /\ pc' = "listen" => mode' = "offline"

\* C6: the mode selection makes at most 4 attempts that select nothing, an
\* empty transcript and one without a keyword each counting for one; every
\* attempt listens on the online backend only; the first transcript holding
\* "offline" or "online" sets the mode and ends the selection at once; after
\* 4 failed attempts the loop is entered in offline mode; the selection always
\* ends and is never re-entered.
C6_ModeSelection ==
    /\ [](attempts \in 0..4)
    /\ [][pc = "select" => SelectStep]_vars
    /\ [][pc # "select" => pc' # "select" /\ attempts' = attempts]_vars
    /\ <>(pc # "select")

\* The loop entered after four attempts that heard nothing.
C6_Witness ==
    /\ pc = "listen"
    /\ attempts = 4
    /\ mode = "offline"
    /\ cyc.arg = "online"
    /\ cyc.heard = ""

\* The errors of the taxonomy, as they show in the iteration's record.
RecognitionEmpty == cyc.calls # <<>> /\ cyc.heard = ""
ParseUnknown == cyc.parsed /\ cyc.cmds = <<UnknownCommand>>
NotARepository == cyc.inRepo = "no"
PushFailure == cyc.push = "False"
AuthFailure == cyc.authRuns = 1 /\ ~cyc.authOk
ModeSwitch == /\ ~cyc.parsed
              /\ \/ Contains(cyc.heard, "switch to offline")
                 \/ Contains(cyc.heard, "switch to online")
AnyError == \/ RecognitionEmpty \/ ParseUnknown \/ NotARepository
            \/ StepFailed \/ PushFailure \/ AuthFailure

\* C7: the loop is left only by an iteration whose transcript is exactly
\* "exit", "quit" or "stop", or by one in which an exception reached the
\* handlers of main; an iteration that raised nothing and ended in an empty
\* transcript, an Unknown, a mode switch, a failed authentication, a
\* not-a-repository outcome, a failed step or a failed push leaves the session
\* running; after the loop is left nothing changes any more.
C7_OnlyExitOrError ==
    /\ [][pc' = "exited" =>
            \/ cyc'.raised # "none"
            \/ cyc'.heard \in {"exit", "quit", "stop"}]_vars
    /\ []((cyc.raised = "none" /\ (AnyError \/ ModeSwitch)) => pc # "exited")
    /\ [][pc # "exited"]_vars

\* The session ended by the transcript "stop".
C7_Witness ==
    /\ pc = "exited"
    /\ cyc.heard = "stop"
    /\ cyc.raised = "none"
    /\ ~cyc.parsed

\* C8: hybrid_listen("offline") calls the streaming recogniser first, and
\* records once and transcribes once exactly when the streaming result is
\* empty (as it is when the Vosk model is not loaded), returning the batch
\* result; hybrid_listen("online") calls the cloud recogniser only, so that an
\* empty cloud result gives the empty transcript.
C8_Arbitration ==
    cyc.calls # <<>> =>
        LET k == cyc.calls
            n == Len(k)
        IN /\ cyc.arg \in {"offline", "online"}
           /\ cyc.arg = "offline" =>
                /\ k[1].fn = "offline_asr_vosk"
                /\ ~vosk_model => k[1].out = ""
                /\ IF k[1].out = ""
                   THEN /\ n = 3
                        /\ k[2].fn = "record_wav"
                        /\ k[3].fn = "whisper_transcribe_from_file"
                   ELSE n = 1
           /\ cyc.arg = "online" =>
                /\ n = 1
                /\ k[1].fn = "cloud_asr_google"
           /\ cyc.heard = Strip(Lower(k[n].out))

\* Offline mode without the Vosk model: the batch recogniser heard "push".
C8_Witness ==
    /\ cyc.arg = "offline"
    /\ ~vosk_model
    /\ Len(cyc.calls) = 3
    /\ cyc.calls[1].out = ""
    /\ cyc.calls[3].out = "push"
    /\ cyc.heard = "push"

\* C9: after an iteration that ended in RecognitionEmpty, ParseUnknown,
\* NotARepository, StepFailure, PushFailure or AuthFailure the session has
\* not left the loop, and it goes on to the next hybrid_listen.
C9_Recoverable ==
    /\ [](AnyError => pc # "exited")
    /\ \A b \in BOOLEAN :
         (pc = "listen" /\ AnyError /\ tick = b)
            ~> ~(pc = "listen" /\ AnyError /\ tick = b)

\* A failed push, with the session back at the head of the loop.
C9_Witness ==
    /\ pc = "listen"
    /\ PushFailure
    /\ cyc.exec = "True"
    /\ cyc.raised = "none"

\* C10: a transcript that says commit, optionally the word message, and then
\* a message m between two quotes of the same kind (m holding no quote of that
\* kind) is parsed to the plan [git add -A, git commit -m "m"] with exactly m.
C10_QuotedCommitExact ==
    \A pre \in Prefixes, word \in BOOLEAN, suf \in Suffixes, q \in Quotes :
      \A msg \in {m \in Messages : ~Contains(m, q)} :
        (cyc.parsed /\ cyc.heard = QuotedCommit(pre, word, q, msg, suf)) =>
            cyc.cmds = <<"git add -A", "git commit -m \"" \o msg \o "\"">>

\* C11: a transcript that says commit and names a file f is parsed to the
\* plan [git add f, git commit -m "msg"], msg being the quoted message when
\* one is spoken and "voice commit f" otherwise.
C11_FileCommit ==
    \A f \in Files, q \in Quotes :
      \A msg \in {m \in Messages \cup {""} : ~Contains(m, q)} :
        (cyc.parsed /\ cyc.heard = FileCommit(f, q, msg)) =>
            cyc.cmds = <<"git add " \o f,
                         "git commit -m \""
                            \o (IF msg = "" THEN "voice commit " \o f ELSE msg)
                            \o "\"">>

\* C12: "create branch n" is parsed to [git branch n, git checkout n] for
\* every branch name n, and "create branch" without a name to Unknown.
C12_CreateBranch ==
    cyc.parsed =>
        /\ \A n \in BranchNames :
             cyc.heard = CreateBranch(n) =>
                cyc.cmds = <<"git branch " \o n, "git checkout " \o n>>
        /\ cyc.heard = "create branch" => cyc.cmds = <<UnknownCommand>>

\* The loop body has run on the transcript of this iteration (its first
\* statement logs the transcript).
Handled ==
    /\ pc # "heard"
    /\ appended[Flat] # <<>>
    /\ appended[Flat][1] = Line(Flat, cyc.heard)

\* The branch names spoken to the listening loop after "switch to" or
\* "checkout"; "switch to online" and "switch to offline" themselves are the
\* mode-switch phrases and name no branch.
HeardBranchNames ==
    {n \in (BranchNames \cup {"feature-branch"}) \ {"online", "offline"} :
        SwitchTo(n) \in Transcripts \/ Checkout(n) \in Transcripts}

\* C13: an iteration of the loop that heard "switch to n" or "checkout n"
\* plans [git checkout n] and hands it to execute_git_sequence.
C13_SwitchBranch ==
    \A n \in HeardBranchNames :
        (Handled /\ cyc.heard \in {SwitchTo(n), Checkout(n)}) =>
            /\ cyc.cmds = <<"git checkout " \o n>>
            /\ cyc.exec # "none"

\* C14: the body of the loop writes the transcript to every log file that
\* can be written, whatever happened to the other file, and a log file that
\* cannot be written neither raises out of the iteration nor ends the loop.
C14_IndependentLogs ==
    [][(pc = "heard" /\ pc' # "heard") =>
          /\ \A f \in writable :
                /\ appended'[f] # <<>>
                /\ appended'[f][1] = Line(f, cyc.heard)
          /\ cyc'.raised = "none"
          /\ pc' = "exited" => cyc.heard \in {"exit", "quit", "stop"}]_vars

\* How many of the entries appended to file f in this iteration are entry e.
Entries(f, e) ==
    Cardinality({j \in 1..Len(appended[f]) : appended[f][j] = Line(f, e)})

\* The step of the plan that failed, if one did.
FailedCommand == cyc.cmds[cyc.ran[Len(cyc.ran)].i]

\* C15: when the loop is about to listen again, a step that failed in the
\* iteration just ended has its FAILED entry, a push to origin/<branch> has its
\* push entry (PUSH FAILED if it failed) and a failed authentication has its
\* AUTH FAIL entry, once in each log file.
C15_EventsLogged ==
    pc = "listen" =>
        \A f \in LogFiles :
            /\ StepFailed =>
                 Entries(f, "FAILED: " \o FailedCommand \o " -> " \o Output(1)) = 1
            /\ cyc.push = "True" =>
                 Entries(f, "push -> origin/" \o cyc.branch) = 1
            /\ cyc.push = "False" =>
                 Entries(f, "PUSH FAILED -> origin/" \o cyc.branch \o " : "
                               \o Output(1)) = 1
            /\ AuthFailure =>
                 Entries(f, "AUTH FAIL for command: " \o Join(cyc.cmds, " | ")) = 1
            /\ cyc.push \in {"none", "True", "False"}

\* A push to origin/dev that failed after an authenticated plan, logged.
C15_Witness ==
    /\ pc = "listen"
    /\ cyc.authOk
    /\ cyc.push = "False"
    /\ cyc.branch = "dev"
    /\ appended[Flat][Len(appended[Flat]) - 1]
          = "PUSH FAILED -> origin/dev : fatal: error\n\n"

\* C16: a listen of the loop that returns the empty transcript appends
\* nothing to either log file, does not call the parser, authenticates and
\* executes nothing, leaves the mode as it is and is followed by another
\* listen; no iteration ever parses the empty transcript.
C16_EmptyTranscript ==
    /\ [][(pc = "listen" /\ cyc'.calls # <<>> /\ cyc'.heard = "") =>
             /\ pc' = "listen"
             /\ mode' = mode
             /\ cyc'.arg = mode
             /\ appended' = EmptyLogs
             /\ ~cyc'.parsed /\ cyc'.cmds = <<>>
             /\ cyc'.authRuns = 0
             /\ cyc'.exec = "none" /\ cyc'.ran = <<>> /\ cyc'.push = "none"
             /\ cyc'.raised = "none"]_vars
    /\ [](cyc.heard = "" => ~cyc.parsed /\ appended = EmptyLogs)

\* Offline mode: both recognisers returned nothing, the loop listens again.
C16_Witness ==
    /\ pc = "listen"
    /\ tick
    /\ cyc.arg = "offline"
    /\ Len(cyc.calls) = 3
    /\ cyc.heard = ""
    /\ appended = EmptyLogs

\* The recognisers hybrid_listen may call in a mode.
BackendSet(m) ==
    IF m = "offline"
    THEN {"offline_asr_vosk", "record_wav", "whisper_transcribe_from_file"}
    ELSE {"cloud_asr_google"}

SaysOffline == Contains(cyc.heard, "switch to offline")
SaysOnline == Contains(cyc.heard, "switch to online")

\* C17: the loop body, run on a transcript that contains "switch to offline"
\* or "switch to online", sets the mode to the one named (offline when both
\* are) and returns to the head of the loop without parsing, authenticating
\* or executing anything; the mode is always offline or online; and every
\* listen of the loop calls hybrid_listen with the current mode and uses that
\* mode's recognisers only.
C17_ModeSwitch ==
    /\ [](mode \in {"offline", "online"})
    /\ [][(pc = "heard" /\ (SaysOffline \/ SaysOnline)) =>
             /\ mode' = IF SaysOffline THEN "offline" ELSE "online"
             /\ pc' = "listen"
             /\ ~cyc'.parsed /\ cyc'.cmds = <<>>
             /\ cyc'.authRuns = 0
             /\ cyc'.inRepo = "n/a" /\ cyc'.exec = "none" /\ cyc'.ran = <<>>
             /\ cyc'.push = "none"
             /\ cyc'.raised = "none"
             /\ attempts' = attempts]_vars
    /\ [][(pc = "listen" /\ cyc'.calls # <<>>) =>
             /\ cyc'.arg = mode
             /\ \A j \in 1..Len(cyc'.calls) :
                   cyc'.calls[j].fn \in BackendSet(mode)]_vars

\* "switch to offline" heard in online mode: the mode is now offline.
C17_Witness ==
    /\ pc = "listen"
    /\ cyc.heard = "switch to offline"
    /\ cyc.arg = "online"
    /\ mode = "offline"
    /\ appended[Flat] = <<"switch to offline\n">>

\* The plans of the intents that are not sensitive: Pull, Status, SwitchBranch.
IsPullPlan(cmds) == cmds = <<"git pull">>
IsStatusPlan(cmds) == cmds = <<"git status">>
IsSwitchPlan(cmds) == Len(cmds) = 1 /\ StartsAt(cmds[1], 1, "git checkout ")

\* C18: with ENABLE_VOICE_AUTH on, an iteration that plans a pull, a status
\* or a switch to a branch does not authenticate and hands the plan to
\* execute_git_sequence.
C18_NoAuthForOthers ==
    (auth /\ cyc.parsed
          /\ (IsPullPlan(cyc.cmds) \/ IsStatusPlan(cyc.cmds) \/ IsSwitchPlan(cyc.cmds)))
        => /\ cyc.authRuns = 0
           /\ cyc.exec # "none"

\* The iteration parsed a command and was not stopped by the authentication.
ReachedExecution ==
    /\ cyc.parsed
    /\ cyc.cmds # <<UnknownCommand>>
    /\ cyc.authRuns = 0 \/ cyc.authOk

\* C19: an iteration that reached execution called execute_git_sequence and
\* appended, as the last entry of the iteration in each log file and only
\* once, "EXECUTED: " and the whole plan, whether or not the directory was a
\* repository and whether or not a step or the push failed.
C19_ExecutedEntry ==
    ReachedExecution =>
        /\ cyc.exec # "none"
        /\ pc = "listen"
        /\ \A f \in LogFiles :
             LET lines == appended[f]
             IN /\ lines # <<>>
                /\ lines[Len(lines)]
                      = Line(f, "EXECUTED: " \o Join(cyc.cmds, " | "))
                /\ Cardinality({j \in 1..Len(lines) :
                                   Contains(lines[j], "EXECUTED: ")}) = 1

\* A status asked outside a repository: no step ran, EXECUTED is logged.
C19_Witness ==
    /\ cyc.inRepo = "no"
    /\ cyc.exec = "None"
    /\ cyc.ran = <<>>
    /\ appended[Flat] = <<"status\n", "EXECUTED: git status\n">>
====
